---- MODULE Spec2Model ----
(***************************************************************************)
(* Recipe catalog service (index.js, gemini.js): search-criteria           *)
(* construction, recipe validation and the CRUD handlers over the          *)
(* document store.                                                         *)
(*                                                                         *)
(* Strings are sequences of one-character strings so that split, regular   *)
(* expression tests and case folding are computed.  A JavaScript value is  *)
(* a record [kind, v], kind \in {"undef", "str", "num", "arr"}.            *)
(***************************************************************************)
EXTENDS Integers, Sequences, FiniteSets, TLC

VARIABLES
    recipes, cuisines, tags,        \* the collections: id -> document
    sreq, criteria, found, sresp,   \* a search request, its predicate and answer
    pc, req, cuisineDoc, tagDocs,   \* per request: position, input, lookups
    pending, resp, fetched,         \* per request: document to write, answer
    nextId, adminOps,               \* ObjectId generator; reference edits so far
    seenCuisines, seenTags, wrote,  \* history: vocabulary at lookup, writes done
    recipeText,                     \* the module-level variable of gemini.js
    vocab, aiOut, aiFound,          \* per AI request: vocabulary, AI answer, matches
    promptVocab, promptText,        \* per AI request: what its prompts carried
    calls, failedAt                 \* history: calls issued, the call that failed

storeVars == <<recipes, cuisines, tags>>
searchVars == <<sreq, criteria, found, sresp>>
localVars == <<req, cuisineDoc, tagDocs, pending, fetched>>
histVars == <<seenCuisines, seenTags, wrote>>
reqVars == <<pc, localVars, resp, nextId, adminOps, histVars>>
aiVars == <<recipeText, vocab, aiOut, aiFound, promptVocab, promptText, calls, failedAt>>
vars == <<storeVars, searchVars, reqVars, aiVars>>

-----------------------------------------------------------------------------
(* Bounds *)

MaxQueryLen == 3
MaxAiNames == 2
NumProcs == 2
MaxAdminOps == 1

-----------------------------------------------------------------------------
(* JavaScript values *)

Undef == [kind |-> "undef", v |-> <<>>]
Str(s) == [kind |-> "str", v |-> s]
Arr(a) == [kind |-> "arr", v |-> a]
Num(n) == [kind |-> "num", v |-> n]
NumUndef == [kind |-> "undef", v |-> 0]

\* JavaScript truthiness, as used by `if (x)` and `!x`
Truthy(x) ==
    CASE x.kind = "undef" -> FALSE
      [] x.kind = "str" -> x.v # <<>>
      [] x.kind = "num" -> x.v # 0
      [] x.kind = "arr" -> TRUE

-----------------------------------------------------------------------------
(* Strings *)

Lower(c) ==
    CASE c = "A" -> "a"
      [] c = "B" -> "b"
      [] OTHER -> c

\* String.prototype.split(",")
RECURSIVE Split(_)
Split(s) ==
    IF \A i \in 1..Len(s) : s[i] # ","
    THEN <<s>>
    ELSE LET i == CHOOSE k \in 1..Len(s) :
                      s[k] = "," /\ \A j \in 1..(k-1) : s[j] # ","
         IN <<SubSeq(s, 1, i-1)>> \o Split(SubSeq(s, i+1, Len(s)))

\* one pattern character against one subject character under flag 'i';
\* "." is the metacharacter that matches any character
RegexCharMatch(p, c) == p = "." \/ Lower(p) = Lower(c)

\* new RegExp(pat, 'i').test(s): unanchored, case-insensitive
RegexTest(pat, s) ==
    \E i \in 0..(Len(s) - Len(pat)) :
        \A j \in 1..Len(pat) : RegexCharMatch(pat[j], s[i+j])

Range(f) == {f[i] : i \in DOMAIN f}

-----------------------------------------------------------------------------
(* Document store queries *)

\* the values a dotted path selects in a recipe document
FieldValues(doc, key) ==
    CASE key = "name" -> IF doc.name.kind = "str" THEN {doc.name.v} ELSE {}
      [] key = "cuisine.name" -> {doc.cuisine.name}
      [] key = "tags.name" -> {t.name : t \in Range(doc.tags)}
      [] key = "ingredients.name" ->
            IF doc.ingredients.kind = "arr"
            THEN {g.name : g \in Range(doc.ingredients.v)} ELSE {}

\* one operand of a query operator against one value
OperandMatch(cond, a, val) == IF cond.re THEN RegexTest(a, val) ELSE a = val

\* $regex, $in and $all of the query language
MatchCond(vals, cond) ==
    CASE cond.op = "$regex" ->
            \E val \in vals : RegexTest(cond.args[1], val)
      [] cond.op = "$in" ->
            \E a \in Range(cond.args) : \E val \in vals : OperandMatch(cond, a, val)
      [] cond.op = "$all" ->
            /\ cond.args # <<>>
            /\ \A a \in Range(cond.args) : \E val \in vals : OperandMatch(cond, a, val)

Matches(doc, crit) ==
    \A key \in DOMAIN crit : MatchCond(FieldValues(doc, key), crit[key])

\* collection.find(crit).toArray(), as the set of matching documents
Find(coll, crit) == {coll[id] : id \in {i \in DOMAIN coll : Matches(coll[i], crit)}}

\* .project({name: 1, cuisine: 1, tags: 1, prepTime: 1})
Project(doc) == [_id |-> doc._id, name |-> doc.name, cuisine |-> doc.cuisine,
                 tags |-> doc.tags, prepTime |-> doc.prepTime]

-----------------------------------------------------------------------------
(* Vocabulary and fixtures *)

CuisineDoc(id, n) == [_id |-> id, name |-> n]
TagDoc(id, n) == [_id |-> id, name |-> n]

\* seeded reference collections: id -> document
SeedCuisines == (1 :> CuisineDoc(1, <<"T">>)) @@ (2 :> CuisineDoc(2, <<"I">>))
SeedTags == (1 :> TagDoc(1, <<"q">>)) @@ (2 :> TagDoc(2, <<"v">>)) @@ (3 :> TagDoc(3, <<"s">>))

Ingredient(n) == [name |-> n]

\* a recipe document as the create handler persists it
RecipeDoc(id, n, c, ings, ts) ==
    [_id |-> id, name |-> Str(n), cuisine |-> c,
     prepTime |-> Num(1), cookTime |-> Num(1), servings |-> Num(1),
     ingredients |-> Arr(ings), instructions |-> Arr(<<<<"s">>>>),
     tags |-> ts, reviews |-> <<>>]

\* a heterogeneous store used by the search specification
FixtureRecipes ==
    (1 :> RecipeDoc(1, <<"a", "b">>, SeedCuisines[1],
                    <<Ingredient(<<"a", "b">>), Ingredient(<<"b", "b">>)>>,
                    <<SeedTags[2]>>))
 @@ (2 :> RecipeDoc(2, <<"B">>, SeedCuisines[2],
                    <<Ingredient(<<"A">>)>>, <<SeedTags[3]>>))
 @@ (3 :> RecipeDoc(3, <<"a">>, SeedCuisines[1], <<>>, <<>>))
 @@ (4 :> RecipeDoc(4, <<"b", "a">>, SeedCuisines[2],
                    <<Ingredient(<<"b">>), Ingredient(<<"a">>)>>,
                    <<SeedTags[1], SeedTags[3]>>))

\* all strings over an alphabet, of length at most n
StringsUpTo(alphabet, n) == UNION {[1..k -> alphabet] : k \in 0..n}

-----------------------------------------------------------------------------
(* GET /recipes/search *)

NameParams == {Undef, Str(<<>>), Str(<<"a">>), Str(<<".", "B">>)}
TagsParams == {Undef} \cup {Str(s) : s \in StringsUpTo({"q", "s", ","}, MaxQueryLen)}
IngredientsParams ==
    {Undef} \cup {Str(s) : s \in StringsUpTo({"a", "B", ".", ","}, MaxQueryLen)}

\* the tags and ingredients parameters of one query string, of bounded length
QueryParams ==
    {tg \in TagsParams \X IngredientsParams : Len(tg[1].v) + Len(tg[2].v) <= MaxQueryLen}

\* the keys of the criteria object built from req.query
SearchKeys(q) ==
    {k \in {"name", "tags.name", "ingredients.name"} :
        CASE k = "name" -> Truthy(q.name)
          [] k = "tags.name" -> Truthy(q.tags)
          [] k = "ingredients.name" -> Truthy(q.ingredients)}

\* ingredient names compared for equality instead of compiled as patterns
SearchCriteria_IngredientsExact(q) ==
    [k \in SearchKeys(q) |->
        CASE k = "name" -> [op |-> "$regex", re |-> TRUE, args |-> <<q.name.v>>]
          [] k = "tags.name" -> [op |-> "$in", re |-> FALSE, args |-> Split(q.tags.v)]
          [] k = "ingredients.name" ->
                [op |-> "$all", re |-> FALSE, args |-> Split(q.ingredients.v)]]

\* tags combined with $all instead of $in
SearchCriteria_TagsAll(q) ==
    [k \in SearchKeys(q) |->
        CASE k = "name" -> [op |-> "$regex", re |-> TRUE, args |-> <<q.name.v>>]
          [] k = "tags.name" -> [op |-> "$all", re |-> FALSE, args |-> Split(q.tags.v)]
          [] k = "ingredients.name" ->
                [op |-> "$all", re |-> TRUE, args |-> Split(q.ingredients.v)]]

SearchCriteria(q) ==
    [k \in SearchKeys(q) |->
        CASE k = "name" -> [op |-> "$regex", re |-> TRUE, args |-> <<q.name.v>>]
          [] k = "tags.name" -> [op |-> "$in", re |-> FALSE, args |-> Split(q.tags.v)]
          [] k = "ingredients.name" ->
                [op |-> "$all", re |-> TRUE, args |-> Split(q.ingredients.v)]]

Search ==
    \E n \in NameParams, tg \in QueryParams :
        LET q == [op |-> "search", name |-> n, tags |-> tg[1], ingredients |-> tg[2],
                  cuisines |-> Undef]
        IN /\ sreq.op = "none"
           /\ sreq' = q
           /\ criteria' = SearchCriteria(q)
           /\ found' = {Project(d) : d \in Find(recipes, SearchCriteria(q))}
           /\ sresp' = 200
           /\ UNCHANGED <<storeVars, reqVars, aiVars>>

-----------------------------------------------------------------------------
(* GET /ai/recipes: criteria from the translator's output *)

SeqsUpTo(S, n) == UNION {[1..k -> S] : k \in 0..n}

AiCuisines == {Undef} \cup {Arr(a) : a \in SeqsUpTo({<<"T">>, <<"I">>}, MaxAiNames)}
AiTags == {Undef} \cup {Arr(a) : a \in SeqsUpTo({<<"q">>, <<"s">>}, MaxAiNames)}
AiIngredients ==
    {Undef} \cup {Arr(a) : a \in SeqsUpTo({<<"a">>, <<"b">>, <<"A">>}, MaxAiNames)}

\* `x && x.length > 0`
NonEmptyArray(x) == Truthy(x) /\ Len(x.v) > 0

\* the length test dropped: an empty array still becomes a constraint
AiKeys_NoLengthCheck(sp) ==
    {k \in {"cuisine.name", "ingredients.name", "tags.name"} :
        CASE k = "cuisine.name" -> Truthy(sp.cuisines)
          [] k = "ingredients.name" -> Truthy(sp.ingredients)
          [] k = "tags.name" -> Truthy(sp.tags)}

AiKeys(sp) ==
    {k \in {"cuisine.name", "ingredients.name", "tags.name"} :
        CASE k = "cuisine.name" -> NonEmptyArray(sp.cuisines)
          [] k = "ingredients.name" -> NonEmptyArray(sp.ingredients)
          [] k = "tags.name" -> NonEmptyArray(sp.tags)}

AiCriteria(sp) ==
    [k \in AiKeys(sp) |->
        CASE k = "cuisine.name" -> [op |-> "$in", re |-> FALSE, args |-> sp.cuisines.v]
          [] k = "ingredients.name" ->
                [op |-> "$all", re |-> FALSE, args |-> sp.ingredients.v]
          [] k = "tags.name" -> [op |-> "$in", re |-> FALSE, args |-> sp.tags.v]]

\* the request when the translator answers sp and both AI calls succeed
AiSearch ==
    \E c \in AiCuisines, t \in AiTags, g \in AiIngredients :
        LET sp == [op |-> "ai", name |-> Undef, tags |-> t, ingredients |-> g,
                   cuisines |-> c]
        IN /\ sreq.op = "none"
           /\ sreq' = sp
           /\ criteria' = AiCriteria(sp)
           /\ found' = Find(recipes, AiCriteria(sp))
           /\ sresp' = 200
           /\ UNCHANGED <<storeVars, reqVars, aiVars>>

Procs == 1..NumProcs

NoBody == [none |-> TRUE]
NoDoc == [none |-> TRUE]
NoResponse == [status |-> 0, error |-> "none"]
Idle == [op |-> "none", id |-> [kind |-> "undef", v |-> 0], body |-> NoBody]

\* allCuisines, allTags, allIngredients before they are fetched
NoVocab == [cuisines |-> {}, tags |-> {}, ingredients |-> {}]

InitRequests ==
    /\ pc = [p \in Procs |-> "idle"]
    /\ req = [p \in Procs |-> Idle]
    /\ cuisineDoc = [p \in Procs |-> <<>>]
    /\ tagDocs = [p \in Procs |-> <<>>]
    /\ pending = [p \in Procs |-> NoDoc]
    /\ resp = [p \in Procs |-> NoResponse]
    /\ fetched = [p \in Procs |-> <<>>]
    /\ adminOps = 0
    /\ seenCuisines = [p \in Procs |-> <<>>]
    /\ seenTags = [p \in Procs |-> <<>>]
    /\ wrote = [p \in Procs |-> 0]
    /\ recipeText = <<>>
    /\ vocab = [p \in Procs |-> NoVocab]
    /\ aiOut = [p \in Procs |-> NoDoc]
    /\ aiFound = [p \in Procs |-> {}]
    /\ promptVocab = [p \in Procs |-> <<>>]
    /\ promptText = [p \in Procs |-> <<>>]
    /\ calls = [p \in Procs |-> <<>>]
    /\ failedAt = [p \in Procs |-> "none"]

NoRequest == [op |-> "none", name |-> Undef, tags |-> Undef, ingredients |-> Undef,
              cuisines |-> Undef]

InitSearch ==
    /\ recipes = FixtureRecipes
    /\ cuisines = SeedCuisines
    /\ tags = SeedTags
    /\ sreq = NoRequest
    /\ criteria = <<>>
    /\ found = {}
    /\ sresp = 0
    /\ nextId = 5
    /\ InitRequests

NextSearch == Search \/ AiSearch

SpecSearch == InitSearch /\ [][NextSearch]_vars

-----------------------------------------------------------------------------
(* Properties of the search predicates *)

ReturnedIds == {d._id : d \in found}

\* sub occurs in s, ignoring case
ContainsIgnoreCase(s, sub) ==
    \E i \in 0..(Len(s) - Len(sub)) :
        \A j \in 1..Len(sub) : Lower(s[i+j]) = Lower(sub[j])

IngredientNames(id) == {g.name : g \in Range(recipes[id].ingredients.v)}
TagNames(id) == {t.name : t \in Range(recipes[id].tags)}

\* every supplied name is a substring of some ingredient name of the recipe
HasAllIngredients(id, names) ==
    \A n \in Range(names) : \E g \in IngredientNames(id) : ContainsIgnoreCase(g, n)

Supplied(x) == x.kind # "undef" /\ Len(x.v) > 0

StructuredIngredientSearch == sreq.op = "search" /\ Supplied(sreq.ingredients)

IngredientsSubstringRule ==
    \A id \in DOMAIN recipes :
        /\ id \in ReturnedIds => HasAllIngredients(id, Split(sreq.ingredients.v))
        /\ (~Supplied(sreq.name) /\ ~Supplied(sreq.tags)
              /\ HasAllIngredients(id, Split(sreq.ingredients.v)))
           => id \in ReturnedIds

\* C1 as stated: with an ingredient list supplied, a recipe is returned iff
\* every supplied name is a case-insensitive substring of one of its
\* ingredient names.
C1_SubstringForEveryName == StructuredIngredientSearch => IngredientsSubstringRule

NoMetacharacter(s) == \A i \in 1..Len(s) : s[i] # "."

\* C1 amended: the same equivalence holds whenever no supplied name contains
\* a regular-expression metacharacter (each name is compiled as a pattern).
C1_SubstringForLiteralNames ==
    (StructuredIngredientSearch /\ NoMetacharacter(sreq.ingredients.v))
        => IngredientsSubstringRule

C1_Witness ==
    /\ sreq.op = "search"
    /\ sreq.ingredients = Str(<<"a", ",", "B">>)
    /\ sreq.name = Undef /\ sreq.tags = Undef
    /\ ReturnedIds = {1, 4}

\* C2: with a tag list supplied, a recipe is returned iff its embedded tag
\* names intersect the supplied names (OR); no shared tag, never returned.
C2_TagsIntersect ==
    (sreq.op = "search" /\ Supplied(sreq.tags)) =>
        \A id \in DOMAIN recipes :
            /\ id \in ReturnedIds => TagNames(id) \cap Range(Split(sreq.tags.v)) # {}
            /\ (~Supplied(sreq.name) /\ ~Supplied(sreq.ingredients)
                  /\ TagNames(id) \cap Range(Split(sreq.tags.v)) # {})
               => id \in ReturnedIds

C2_Witness ==
    /\ sreq.op = "search"
    /\ sreq.tags = Str(<<"q", ",", "s">>)
    /\ sreq.name = Undef /\ sreq.ingredients = Undef
    /\ ReturnedIds = {2, 4}

\* the predicate keys a request is entitled to: one per supplied field
SuppliedKeys ==
    {k \in {"name", "cuisine.name", "tags.name", "ingredients.name"} :
        CASE k = "name" -> Supplied(sreq.name)
          [] k = "cuisine.name" -> Supplied(sreq.cuisines)
          [] k = "tags.name" -> Supplied(sreq.tags)
          [] k = "ingredients.name" -> Supplied(sreq.ingredients)}

\* C3: an absent or empty field (query parameter, or array from the
\* translator) adds no key to the predicate, the predicate has a key for each
\* supplied non-empty field only, and with nothing supplied every record of
\* the store is matched.
C3_EmptyFieldsOmitted ==
    sreq.op # "none" =>
        /\ DOMAIN criteria = SuppliedKeys
        /\ SuppliedKeys = {} => ReturnedIds = DOMAIN recipes

C3_Witness ==
    /\ sreq.op = "ai"
    /\ sreq.cuisines = Arr(<<>>) /\ sreq.ingredients = Arr(<<>>) /\ sreq.tags = Undef
    /\ ReturnedIds = DOMAIN recipes
    /\ Cardinality(ReturnedIds) = 4

-----------------------------------------------------------------------------
(* Recipe validation (validateRecipe, and the same checks inlined in create) *)

RecipeBody(n, c, pt, ct, sv, ings, ins, ts) ==
    [name |-> n, cuisine |-> c, prepTime |-> pt, cookTime |-> ct, servings |-> sv,
     ingredients |-> ings, instructions |-> ins, tags |-> ts]

\* the name left out of the presence test
PresenceOk_WithoutName(b) ==
    /\ Truthy(b.cuisine) /\ Truthy(b.ingredients)
    /\ Truthy(b.instructions) /\ Truthy(b.tags) /\ Truthy(b.prepTime)
    /\ Truthy(b.cookTime) /\ Truthy(b.servings)

\* `!name || !cuisine || ... || !servings` is false
PresenceOk(b) ==
    /\ Truthy(b.name) /\ Truthy(b.cuisine) /\ Truthy(b.ingredients)
    /\ Truthy(b.instructions) /\ Truthy(b.tags) /\ Truthy(b.prepTime)
    /\ Truthy(b.cookTime) /\ Truthy(b.servings)

Min(S) == CHOOSE x \in S : \A y \in S : x <= y

\* the elements of a set of ids in increasing order
RECURSIVE IdsToSeq(_)
IdsToSeq(S) == IF S = {} THEN <<>> ELSE <<Min(S)>> \o IdsToSeq(S \ {Min(S)})

\* the lookup not filtered by name: any cuisine document is accepted
FindCuisine_AnyName(n) ==
    IF DOMAIN cuisines = {} THEN <<>> ELSE <<cuisines[Min(DOMAIN cuisines)]>>

\* db.collection('cuisines').findOne({name: cuisine}): <<>> is null
FindCuisine(n) ==
    LET ids == {i \in DOMAIN cuisines : cuisines[i].name = n}
    IN IF ids = {} THEN <<>> ELSE <<cuisines[Min(ids)]>>

\* db.collection('tags').find({name: {$in: names}}).toArray()
FindTags(names) ==
    LET ids == {i \in DOMAIN tags : tags[i].name \in Range(names)}
    IN [k \in 1..Cardinality(ids) |-> tags[IdsToSeq(ids)[k]]]

\* the count test relaxed to "no more documents than names"
TagCountOk_AtMost(docs, names) == Len(docs) <= Len(names)

\* `tagDocs.length != tags.length` is false
TagCountOk(docs, names) == Len(docs) = Len(names)

\* the normalized recipe: cuisine and tags replaced by the resolved documents
NewRecipe(b, cdoc, tdocs) ==
    [name |-> b.name,
     cuisine |-> [_id |-> cdoc._id, name |-> cdoc.name],
     prepTime |-> b.prepTime, cookTime |-> b.cookTime, servings |-> b.servings,
     ingredients |-> b.ingredients, instructions |-> b.instructions,
     tags |-> tdocs]

-----------------------------------------------------------------------------
(* Store writes *)

\* insertOne of a normalized recipe under a new _id
InsertRecipe(id, nr) ==
    recipes @@ (id :> [_id |-> id, name |-> nr.name, cuisine |-> nr.cuisine,
                       prepTime |-> nr.prepTime, cookTime |-> nr.cookTime,
                       servings |-> nr.servings, ingredients |-> nr.ingredients,
                       instructions |-> nr.instructions, tags |-> nr.tags,
                       reviews |-> <<>>])

\* $set without the cuisine: the old snapshot stays
SetRecipe_KeepsCuisine(id, nr) ==
    [recipes EXCEPT ![id] =
        [@ EXCEPT !.name = nr.name,
                  !.prepTime = nr.prepTime, !.cookTime = nr.cookTime,
                  !.servings = nr.servings, !.ingredients = nr.ingredients,
                  !.instructions = nr.instructions, !.tags = nr.tags]]

\* updateOne({_id}, {$set: nr}) on a matched document
SetRecipe(id, nr) ==
    [recipes EXCEPT ![id] =
        [@ EXCEPT !.name = nr.name, !.cuisine = nr.cuisine,
                  !.prepTime = nr.prepTime, !.cookTime = nr.cookTime,
                  !.servings = nr.servings, !.ingredients = nr.ingredients,
                  !.instructions = nr.instructions, !.tags = nr.tags]]

\* $set instead of $push: the review list is replaced by the new review
PushReview_Overwrite(id, rv) ==
    [recipes EXCEPT ![id] = [@ EXCEPT !.reviews = <<rv>>]]

\* updateOne({_id}, {$push: {reviews: rv}}) on a matched document
PushReview(id, rv) ==
    [recipes EXCEPT ![id] = [@ EXCEPT !.reviews = Append(@, rv)]]

\* deleteOne({_id}) on a matched document
RemoveRecipe(id) == [i \in DOMAIN recipes \ {id} |-> recipes[i]]

-----------------------------------------------------------------------------
(* Request plumbing *)

\* new ObjectId(x) throws BSONError unless x is a 24-digit hex string
ValidObjectId(x) == x.kind # "bad"

\* new ObjectId(x): the id a hex string denotes; a new id for undefined
ObjectIdOf(x) == IF x.kind = "hex" THEN x.v ELSE 0

Hex(n) == [kind |-> "hex", v |-> n]
BadId == [kind |-> "bad", v |-> 0]
NoId == [kind |-> "undef", v |-> 0]

\* res.status(st).json({error}) and the handler returns
Respond(p, st, err) ==
    /\ resp' = [resp EXCEPT ![p] = [status |-> st, error |-> err]]
    /\ pc' = [pc EXCEPT ![p] = "done"]

Await(p, label) ==
    /\ pc' = [pc EXCEPT ![p] = label]
    /\ UNCHANGED resp

Receive(p, o, i, b) ==
    /\ pc[p] = "idle"
    /\ req' = [req EXCEPT ![p] = [op |-> o, id |-> i, body |-> b]]

-----------------------------------------------------------------------------
(* POST /recipes/create *)

CreateStart(p, bodies) ==
    \E b \in bodies :
        /\ Receive(p, "create", NoId, b)
        /\ IF ~PresenceOk(b)
           THEN Respond(p, 400, "MissingFields")
           ELSE Await(p, "create_cuisine")
        /\ UNCHANGED <<storeVars, searchVars, aiVars, cuisineDoc, tagDocs, pending, fetched,
                       nextId, adminOps, histVars>>

CreateCuisine(p) ==
    /\ pc[p] = "create_cuisine"
    /\ cuisineDoc' = [cuisineDoc EXCEPT ![p] = FindCuisine(req[p].body.cuisine.v)]
    /\ seenCuisines' = [seenCuisines EXCEPT ![p] = <<Range(cuisines)>>]
    /\ IF FindCuisine(req[p].body.cuisine.v) = <<>>
       THEN Respond(p, 400, "InvalidCuisine")
       ELSE Await(p, "create_tags")
    /\ UNCHANGED <<storeVars, searchVars, aiVars, req, tagDocs, pending, fetched,
                   nextId, adminOps, seenTags, wrote>>

CreateTags(p) ==
    LET docs == FindTags(req[p].body.tags.v)
    IN /\ pc[p] = "create_tags"
       /\ tagDocs' = [tagDocs EXCEPT ![p] = docs]
       /\ seenTags' = [seenTags EXCEPT ![p] = <<Range(tags)>>]
       /\ IF ~TagCountOk(docs, req[p].body.tags.v)
          THEN /\ Respond(p, 400, "InvalidTags")
               /\ UNCHANGED <<pending, nextId>>
          ELSE /\ pending' = [pending EXCEPT ![p] =
                      [_id |-> nextId,
                       doc |-> NewRecipe(req[p].body, cuisineDoc[p][1], docs)]]
               /\ nextId' = nextId + 1
               /\ Await(p, "create_insert")
       /\ UNCHANGED <<storeVars, searchVars, aiVars, req, cuisineDoc, fetched,
                      adminOps, seenCuisines, wrote>>

CreateInsert(p) ==
    /\ pc[p] = "create_insert"
    /\ recipes' = InsertRecipe(pending[p]._id, pending[p].doc)
    /\ wrote' = [wrote EXCEPT ![p] = @ + 1]
    /\ Respond(p, 201, "none")
    /\ UNCHANGED <<cuisines, tags, searchVars, aiVars, localVars, nextId, adminOps,
                   seenCuisines, seenTags>>

-----------------------------------------------------------------------------
(* PUT /recipes/update/:id *)

UpdateStart(p, bodies, ids) ==
    \E b \in bodies, i \in ids :
        /\ Receive(p, "update", i, b)
        /\ IF ~PresenceOk(b)
           THEN Respond(p, 400, "MissingFields")
           ELSE Await(p, "update_cuisine")
        /\ UNCHANGED <<storeVars, searchVars, aiVars, cuisineDoc, tagDocs, pending, fetched,
                       nextId, adminOps, histVars>>

UpdateCuisine(p) ==
    /\ pc[p] = "update_cuisine"
    /\ cuisineDoc' = [cuisineDoc EXCEPT ![p] = FindCuisine(req[p].body.cuisine.v)]
    /\ seenCuisines' = [seenCuisines EXCEPT ![p] = <<Range(cuisines)>>]
    /\ IF FindCuisine(req[p].body.cuisine.v) = <<>>
       THEN Respond(p, 400, "InvalidCuisine")
       ELSE Await(p, "update_tags")
    /\ UNCHANGED <<storeVars, searchVars, aiVars, req, tagDocs, pending, fetched,
                   nextId, adminOps, seenTags, wrote>>

UpdateTags(p) ==
    LET docs == FindTags(req[p].body.tags.v)
    IN /\ pc[p] = "update_tags"
       /\ tagDocs' = [tagDocs EXCEPT ![p] = docs]
       /\ seenTags' = [seenTags EXCEPT ![p] = <<Range(tags)>>]
       /\ IF ~TagCountOk(docs, req[p].body.tags.v)
          THEN /\ Respond(p, 400, "InvalidTags")
               /\ UNCHANGED pending
          ELSE IF ~ValidObjectId(req[p].id)
          THEN /\ Respond(p, 500, "Internal")
               /\ UNCHANGED pending
          ELSE /\ pending' = [pending EXCEPT ![p] =
                      [_id |-> ObjectIdOf(req[p].id),
                       doc |-> NewRecipe(req[p].body, cuisineDoc[p][1], docs)]]
               /\ Await(p, "update_write")
       /\ UNCHANGED <<storeVars, searchVars, aiVars, req, cuisineDoc, fetched,
                      nextId, adminOps, seenCuisines, wrote>>

\* updateOne with upsert: an unmatched id creates the document
UpdateWrite_Upsert(p) ==
    /\ pc[p] = "update_write"
    /\ IF pending[p]._id \in DOMAIN recipes
       THEN recipes' = SetRecipe(pending[p]._id, pending[p].doc)
       ELSE recipes' = InsertRecipe(pending[p]._id, pending[p].doc)
    /\ wrote' = [wrote EXCEPT ![p] = @ + 1]
    /\ Respond(p, 200, "none")
    /\ UNCHANGED <<cuisines, tags, searchVars, aiVars, localVars, nextId, adminOps,
                   seenCuisines, seenTags>>

UpdateWrite(p) ==
    /\ pc[p] = "update_write"
    /\ IF pending[p]._id \in DOMAIN recipes
       THEN /\ recipes' = SetRecipe(pending[p]._id, pending[p].doc)
            /\ wrote' = [wrote EXCEPT ![p] = @ + 1]
            /\ Respond(p, 200, "none")
       ELSE /\ Respond(p, 404, "NotFound")
            /\ UNCHANGED <<recipes, wrote>>
    /\ UNCHANGED <<cuisines, tags, searchVars, aiVars, localVars, nextId, adminOps,
                   seenCuisines, seenTags>>

-----------------------------------------------------------------------------
(* GET /recipes/detail *)

DetailStart(p, ids) ==
    \E i \in ids \cup {NoId} :
        /\ Receive(p, "detail", i, NoBody)
        /\ IF ~ValidObjectId(i)
           THEN Respond(p, 400, "InvalidIdentifier")
           ELSE Await(p, "detail_find")
        /\ UNCHANGED <<storeVars, searchVars, aiVars, cuisineDoc, tagDocs, pending, fetched,
                       nextId, adminOps, histVars>>

DetailFind(p) ==
    /\ pc[p] = "detail_find"
    /\ IF ObjectIdOf(req[p].id) \in DOMAIN recipes
       THEN /\ fetched' = [fetched EXCEPT ![p] = <<recipes[ObjectIdOf(req[p].id)]>>]
            /\ Respond(p, 200, "none")
       ELSE /\ Respond(p, 404, "NotFound")
            /\ UNCHANGED fetched
    /\ UNCHANGED <<storeVars, searchVars, aiVars, req, cuisineDoc, tagDocs, pending,
                   nextId, adminOps, histVars>>

-----------------------------------------------------------------------------
(* DELETE /recipes/delete/:id *)

DeleteStart(p, ids) ==
    \E i \in ids :
        /\ Receive(p, "delete", i, NoBody)
        /\ IF ~ValidObjectId(i)
           THEN Respond(p, 500, "Internal")
           ELSE Await(p, "delete_write")
        /\ UNCHANGED <<storeVars, searchVars, aiVars, cuisineDoc, tagDocs, pending, fetched,
                       nextId, adminOps, histVars>>

DeleteWrite(p) ==
    /\ pc[p] = "delete_write"
    /\ IF ObjectIdOf(req[p].id) \in DOMAIN recipes
       THEN /\ recipes' = RemoveRecipe(ObjectIdOf(req[p].id))
            /\ wrote' = [wrote EXCEPT ![p] = @ + 1]
            /\ Respond(p, 200, "none")
       ELSE /\ Respond(p, 404, "NotFound")
            /\ UNCHANGED <<recipes, wrote>>
    /\ UNCHANGED <<cuisines, tags, searchVars, aiVars, localVars, nextId, adminOps,
                   seenCuisines, seenTags>>

-----------------------------------------------------------------------------
(* POST /recipes/:id/reviews *)

ReviewBody(u, r, c) == [user |-> u, rating |-> r, comment |-> c]

\* `!user || !rating || !comment` is false
ReviewPresenceOk(b) == Truthy(b.user) /\ Truthy(b.rating) /\ Truthy(b.comment)

ReviewStart(p, bodies, ids) ==
    \E b \in bodies, i \in ids :
        /\ Receive(p, "review", i, b)
        /\ IF ~ReviewPresenceOk(b)
           THEN /\ Respond(p, 400, "MissingFields")
                /\ UNCHANGED <<pending, nextId>>
           ELSE /\ nextId' = nextId + 1
                /\ IF ~ValidObjectId(i)
                   THEN /\ Respond(p, 500, "Internal")
                        /\ UNCHANGED pending
                   ELSE /\ pending' = [pending EXCEPT ![p] =
                               [_id |-> ObjectIdOf(i),
                                doc |-> [review_id |-> nextId, user |-> b.user,
                                         rating |-> b.rating, comment |-> b.comment]]]
                        /\ Await(p, "review_write")
        /\ UNCHANGED <<storeVars, searchVars, aiVars, cuisineDoc, tagDocs, fetched,
                       adminOps, histVars>>

ReviewWrite(p) ==
    /\ pc[p] = "review_write"
    /\ IF pending[p]._id \in DOMAIN recipes
       THEN /\ recipes' = PushReview(pending[p]._id, pending[p].doc)
            /\ wrote' = [wrote EXCEPT ![p] = @ + 1]
            /\ Respond(p, 201, "none")
       ELSE /\ Respond(p, 404, "NotFound")
            /\ UNCHANGED <<recipes, wrote>>
    /\ UNCHANGED <<cuisines, tags, searchVars, aiVars, localVars, nextId, adminOps,
                   seenCuisines, seenTags>>

-----------------------------------------------------------------------------
(* Reference collections are edited by seed/admin tooling outside the service *)

RenameCuisine ==
    \E c \in DOMAIN cuisines :
        /\ adminOps < MaxAdminOps
        /\ \A d \in DOMAIN cuisines : cuisines[d].name # <<"X">>
        /\ cuisines' = [cuisines EXCEPT ![c].name = <<"X">>]
        /\ adminOps' = adminOps + 1
        /\ UNCHANGED <<recipes, tags, searchVars, aiVars, pc, localVars, resp, nextId, histVars>>

RemoveCuisine ==
    \E c \in DOMAIN cuisines :
        /\ adminOps < MaxAdminOps
        /\ cuisines' = [d \in DOMAIN cuisines \ {c} |-> cuisines[d]]
        /\ adminOps' = adminOps + 1
        /\ UNCHANGED <<recipes, tags, searchVars, aiVars, pc, localVars, resp, nextId, histVars>>

RenameTag ==
    \E t \in DOMAIN tags :
        /\ adminOps < MaxAdminOps
        /\ \A d \in DOMAIN tags : tags[d].name # <<"z">>
        /\ tags' = [tags EXCEPT ![t].name = <<"z">>]
        /\ adminOps' = adminOps + 1
        /\ UNCHANGED <<recipes, cuisines, searchVars, aiVars, pc, localVars, resp, nextId, histVars>>

RemoveTag ==
    \E t \in DOMAIN tags :
        /\ adminOps < MaxAdminOps
        /\ tags' = [d \in DOMAIN tags \ {t} |-> tags[d]]
        /\ adminOps' = adminOps + 1
        /\ UNCHANGED <<recipes, cuisines, searchVars, aiVars, pc, localVars, resp, nextId, histVars>>

-----------------------------------------------------------------------------
(* The service under concurrent requests *)

BaseBody ==
    RecipeBody(Str(<<"a">>), Str(<<"T">>), Num(1), Num(1), Num(1),
               Arr(<<Ingredient(<<"a">>)>>), Arr(<<<<"s">>>>), Arr(<<<<"q">>>>))

Bodies ==
    {BaseBody,
     [BaseBody EXCEPT !.cuisine = Str(<<"I">>), !.tags = Arr(<<<<"v">>, <<"q">>>>)],
     [BaseBody EXCEPT !.name = Str(<<>>)],
     [BaseBody EXCEPT !.cuisine = Str(<<"X">>)],
     [BaseBody EXCEPT !.tags = Arr(<<<<"q">>, <<"z">>>>)]}

Ids == {Hex(1), Hex(2), BadId}

ReviewBodies ==
    {ReviewBody(Str(<<"u">>), Num(5), Str(<<"c">>)),
     ReviewBody(Str(<<"u">>), Num(0), Str(<<"c">>))}

Init ==
    /\ recipes = (1 :> RecipeDoc(1, <<"a">>, SeedCuisines[1],
                                 <<Ingredient(<<"a">>)>>, <<SeedTags[1]>>))
    /\ cuisines = SeedCuisines
    /\ tags = SeedTags
    /\ sreq = NoRequest
    /\ criteria = <<>>
    /\ found = {}
    /\ sresp = 0
    /\ nextId = 2
    /\ InitRequests

Next ==
    \/ \E p \in Procs :
          \/ CreateStart(p, Bodies) \/ CreateCuisine(p) \/ CreateTags(p)
          \/ CreateInsert(p)
          \/ UpdateStart(p, Bodies, Ids) \/ UpdateCuisine(p) \/ UpdateTags(p)
          \/ UpdateWrite(p)
          \/ DetailStart(p, Ids) \/ DetailFind(p)
          \/ DeleteStart(p, Ids) \/ DeleteWrite(p)
          \/ ReviewStart(p, ReviewBodies, Ids) \/ ReviewWrite(p)
    \/ RenameCuisine \/ RemoveCuisine \/ RenameTag \/ RemoveTag

Spec == Init /\ [][Next]_vars

-----------------------------------------------------------------------------
(* Validation of one create or update request over many candidate payloads *)

MaxDeviations == 3

NameValues == {Str(<<"a">>), Str(<<>>), Undef}
CuisineValues == {Str(<<"T">>), Str(<<"I">>), Str(<<"X">>), Str(<<>>), Undef}
NumberValues == {Num(1), Num(0), NumUndef}
IngredientsValues == {Arr(<<Ingredient(<<"a">>)>>), Arr(<<>>), Undef}
InstructionsValues == {Arr(<<<<"s">>>>), Arr(<<>>), Undef}
TagsValues ==
    {Arr(<<<<"q">>>>), Arr(<<<<"v">>, <<"q">>>>), Arr(<<<<"q">>, <<"q">>>>),
     Arr(<<<<"q">>, <<"z">>>>), Arr(<<<<"z">>>>), Arr(<<>>), Undef}

BodyFields == {"name", "cuisine", "prepTime", "cookTime", "servings",
               "ingredients", "instructions", "tags"}

Deviations(b) == Cardinality({f \in BodyFields : b[f] # BaseBody[f]})

\* candidate payloads: the valid payload changed in at most MaxDeviations fields
ValidationBodies ==
    {b \in [name : NameValues, cuisine : CuisineValues, prepTime : NumberValues,
            cookTime : NumberValues, servings : NumberValues,
            ingredients : IngredientsValues, instructions : InstructionsValues,
            tags : TagsValues] : Deviations(b) <= MaxDeviations}

NextValidate ==
    \/ CreateStart(1, ValidationBodies) \/ CreateCuisine(1) \/ CreateTags(1)
    \/ CreateInsert(1)
    \/ UpdateStart(1, ValidationBodies, Ids) \/ UpdateCuisine(1) \/ UpdateTags(1)
    \/ UpdateWrite(1)

SpecValidate == Init /\ [][NextValidate]_vars

-----------------------------------------------------------------------------
(* Properties of recipe validation *)

Finished(p, ops) == pc[p] = "done" /\ req[p].op \in ops

Failed(p, err) == resp[p] = [status |-> 400, error |-> err]

\* a field that is absent, an empty string or zero
Blank(x) ==
    \/ x.kind = "undef"
    \/ x.kind = "str" /\ Len(x.v) = 0
    \/ x.kind = "num" /\ x.v = 0

\* a field that is an empty list
EmptyList(x) == x.kind = "arr" /\ Len(x.v) = 0

SomeBlank(b) == \E f \in BodyFields : Blank(b[f])
SomeEmptyList(b) == \E f \in BodyFields : EmptyList(b[f])

\* the names in a reference collection when request p looked it up
CuisineNamesSeen(p) == {d.name : d \in seenCuisines[p][1]}
TagNamesSeen(p) == {d.name : d \in seenTags[p][1]}

Distinct(names) == \A i, j \in DOMAIN names : names[i] = names[j] => i = j

\* C4: checks run in the order presence, cuisine, tags and stop at the first
\* failure: a payload with a missing field fails with MissingFields whatever
\* its cuisine and tags, and a complete payload whose cuisine is not in the
\* vocabulary fails with InvalidCuisine whatever its tags.
C4_ValidationOrder ==
    \A p \in Procs :
        Finished(p, {"create", "update"}) =>
            /\ SomeBlank(req[p].body) => Failed(p, "MissingFields")
            /\ (~SomeBlank(req[p].body) /\ ~SomeEmptyList(req[p].body)
                  /\ req[p].body.cuisine.v \notin CuisineNamesSeen(p))
               => Failed(p, "InvalidCuisine")

C4_Witness ==
    /\ Finished(1, {"update"})
    /\ req[1].body.cuisine = Str(<<"X">>)
    /\ req[1].body.tags = Arr(<<<<"q">>, <<"z">>>>)
    /\ Failed(1, "InvalidCuisine")

\* C5 as stated: the presence check fails with MissingFields exactly when a
\* field is absent, an empty string, an empty list or zero.
C5_PresenceCheck ==
    \A p \in Procs :
        Finished(p, {"create", "update"}) =>
            (Failed(p, "MissingFields")
                <=> (SomeBlank(req[p].body) \/ SomeEmptyList(req[p].body)))

\* C6: once presence and cuisine pass, validation fails with InvalidTags
\* exactly when a requested tag name is absent from the vocabulary or is
\* repeated; it passes only when every name is distinct and present.
C6_TagResolution ==
    \A p \in Procs :
        (Finished(p, {"create", "update"}) /\ cuisineDoc[p] # <<>>) =>
            (Failed(p, "InvalidTags")
                <=> \/ ~Distinct(req[p].body.tags.v)
                    \/ \E n \in Range(req[p].body.tags.v) : n \notin TagNamesSeen(p))

C6_Witness ==
    /\ Finished(1, {"create"})
    /\ req[1].body.tags = Arr(<<<<"q">>, <<"q">>>>)
    /\ cuisineDoc[1] # <<>>
    /\ Failed(1, "InvalidTags")

-----------------------------------------------------------------------------
(* Properties of the handlers under concurrent requests *)

\* the payload of request p fails validation, judged against the vocabulary
\* the request saw
FailsValidation(p) ==
    \/ SomeBlank(req[p].body)
    \/ seenCuisines[p] # <<>> /\ req[p].body.cuisine.v \notin CuisineNamesSeen(p)
    \/ /\ seenTags[p] # <<>>
       /\ \/ ~Distinct(req[p].body.tags.v)
          \/ \E n \in Range(req[p].body.tags.v) : n \notin TagNamesSeen(p)

\* C7: a create or update request whose payload fails validation is answered
\* 400 and writes nothing to the recipes collection, whatever other requests
\* run in between.
C7_NoWriteOnValidationFailure ==
    \A p \in Procs :
        (Finished(p, {"create", "update"}) /\ FailsValidation(p)) =>
            /\ resp[p].status = 400
            /\ resp[p].error \in {"MissingFields", "InvalidCuisine", "InvalidTags"}
            /\ wrote[p] = 0

C7_Witness ==
    \E p, q \in Procs :
        /\ Finished(p, {"create"}) /\ Failed(p, "InvalidTags")
        /\ Finished(q, {"create"}) /\ resp[q].status = 201
        /\ DOMAIN recipes = {1, 2}

\* request p performs its insert or matched update in this step
WritesRecipe(p) ==
    /\ pc[p] \in {"create_insert", "update_write"}
    /\ wrote'[p] = wrote[p] + 1

Snapshot(doc) == [cuisine |-> doc.cuisine, tags |-> doc.tags]

\* the written snapshots are documents that were in the reference
\* collections when the request resolved them, selected by the requested names
WritesResolvedSnapshots(p) ==
    LET id == pending[p]._id
        b == req[p].body
    IN /\ id \in DOMAIN recipes'
       /\ recipes'[id].cuisine \in seenCuisines[p][1]
       /\ recipes'[id].cuisine.name = b.cuisine.v
       /\ Range(recipes'[id].tags) = {d \in seenTags[p][1] : d.name \in Range(b.tags.v)}

\* the written snapshots are in the reference collections at the write
SnapshotsExistAtWrite(p) ==
    LET id == pending[p]._id
    IN /\ id \in DOMAIN recipes'
       /\ recipes'[id].cuisine \in Range(cuisines)
       /\ Range(recipes'[id].tags) \subseteq Range(tags)

\* a stored recipe's snapshots change only by an update of that recipe, and
\* it disappears only by a delete of that recipe
SnapshotsStable ==
    \A id \in DOMAIN recipes :
        /\ (id \in DOMAIN recipes' /\ Snapshot(recipes'[id]) # Snapshot(recipes[id]))
           => \E p \in Procs : pc[p] = "update_write" /\ pending[p]._id = id
                                 /\ pc'[p] = "done"
        /\ id \notin DOMAIN recipes'
           => \E p \in Procs : pc[p] = "delete_write" /\ ObjectIdOf(req[p].id) = id
                                 /\ pc'[p] = "done"

\* a successful fetch by id returns the stored record
FetchReturnsStored ==
    \A p \in Procs :
        (pc[p] = "detail_find" /\ pc'[p] = "done" /\ resp'[p].status = 200)
            => fetched'[p] = <<recipes[ObjectIdOf(req[p].id)]>>

\* C8 as stated: a created or updated recipe carries the resolved {id, name}
\* documents, each in its reference collection at the time of the write, and
\* they stay as written under later renames and removals.
C8_SnapshotsExistAtWrite ==
    [][/\ \A p \in Procs :
              WritesRecipe(p) => WritesResolvedSnapshots(p) /\ SnapshotsExistAtWrite(p)
       /\ SnapshotsStable
       /\ FetchReturnsStored]_vars

\* C8 amended: a created or updated recipe carries the {id, name} documents
\* resolved from the reference collections at validation time (each existed
\* there when it was looked up, which may be before the write), a fetch by id
\* returns them, and they stay as written under later renames and removals
\* until the recipe is updated or deleted.
C8_SnapshotsResolvedAtValidation ==
    [][/\ \A p \in Procs : WritesRecipe(p) => WritesResolvedSnapshots(p)
       /\ SnapshotsStable
       /\ FetchReturnsStored]_vars

C8_Witness ==
    \E p, q \in Procs :
        /\ Finished(p, {"create"}) /\ resp[p].status = 201
        /\ Finished(q, {"detail"}) /\ resp[q].status = 200
        /\ fetched[q] # <<>>
        /\ fetched[q][1]._id = pending[p]._id
        /\ fetched[q][1].cuisine = SeedCuisines[1]
        /\ fetched[q][1].cuisine \notin Range(cuisines)
        /\ adminOps > 0

\* C9 as stated: on detail, update, delete and add-review a malformed id is
\* answered 400 InvalidIdentifier, never 404 and never 500.
C9_MalformedIdIs400 ==
    \A p \in Procs :
        (Finished(p, {"detail", "update", "delete", "review"}) /\ req[p].id.kind = "bad")
            => resp[p].status = 400

\* request p is answered in this step, for an id that is well formed and
\* matches no stored recipe
AnswersUnknownId(p) ==
    /\ resp[p].status = 0 /\ resp'[p].status # 0
    /\ req'[p].op \in {"detail", "update", "delete", "review"}
    /\ req'[p].id.kind # "bad"
    /\ ObjectIdOf(req'[p].id) \notin DOMAIN recipes
    /\ req'[p].op = "update" => pc[p] = "update_write"

NotFoundUnchanged(p) ==
    /\ resp'[p] = [status |-> 404, error |-> "NotFound"]
    /\ recipes' = recipes

\* C10 as stated: for a well-formed id matching no recipe, detail, update
\* (valid payload), delete and add-review answer 404 and change nothing.
C10_UnknownIdIs404 ==
    [][\A p \in Procs : AnswersUnknownId(p) => NotFoundUnchanged(p)]_vars

\* C10 amended: the same, for add-review when user, rating and comment are
\* supplied (a review with a missing field is answered 400 before the id is
\* looked at).
C10_UnknownIdIs404ForValidPayload ==
    [][\A p \in Procs :
          (AnswersUnknownId(p)
             /\ (req'[p].op = "review" =>
                    \A f \in {"user", "rating", "comment"} : ~Blank(req'[p].body[f])))
          => NotFoundUnchanged(p)]_vars

C10_Witness ==
    \E p \in Procs :
        /\ Finished(p, {"update"})
        /\ req[p].id = Hex(2)
        /\ resp[p] = [status |-> 404, error |-> "NotFound"]
        /\ DOMAIN recipes = {1}

-----------------------------------------------------------------------------
(* The AI routes, one step per awaited call *)

\* db.collection(...).distinct(field)
DistinctCuisines == {cuisines[i].name : i \in DOMAIN cuisines}
DistinctTags == {tags[i].name : i \in DOMAIN tags}
DistinctIngredients ==
    UNION {FieldValues(recipes[i], "ingredients.name") : i \in DOMAIN recipes}

\* JSON.stringify(recipe): the matching recipes as an array, in store order
Stringify(docs) ==
    LET ids == {d._id : d \in docs}
    IN [k \in 1..Cardinality(ids) |->
           CHOOSE d \in docs : d._id = IdsToSeq(ids)[k]]

\* the stale read: the prompt built from what recipeText held before this call
RecipeTextRead_Stale(written) == recipeText

\* `Recipe: ${recipeText}` reads what line 251 has just assigned
RecipeTextRead(written) == written

SearchParams(c, t, g) ==
    [cuisines |-> c, tags |-> t, ingredients |-> g, userLanguage |-> "en"]

\* structured answers of the translator
SearchParamsAnswers ==
    {SearchParams(Arr(<<>>), Arr(<<>>), Arr(<<>>)),
     SearchParams(Arr(<<>>), Arr(<<<<"q">>>>), Arr(<<>>)),
     SearchParams(Arr(<<>>), Arr(<<>>), Arr(<<<<"b">>>>)),
     SearchParams(Arr(<<<<"I">>>>), Undef, Undef)}

\* structured answers of the extractor
Drafts ==
    {[BaseBody EXCEPT !.ingredients = Arr(<<Ingredient(<<"b">>)>>)],
     [BaseBody EXCEPT !.name = Undef],
     [BaseBody EXCEPT !.cuisine = Str(<<"X">>)],
     [BaseBody EXCEPT !.tags = Arr(<<<<"q">>, <<"z">>>>)],
     [BaseBody EXCEPT !.tags = Undef]}

\* newRecipe.cuisine = cuisineDoc; newRecipe.tags = tagDocs
AiNewRecipe(d, cdoc, tdocs) == [d EXCEPT !.cuisine = cdoc, !.tags = tdocs]

Call(p, name) == calls' = [calls EXCEPT ![p] = Append(@, name)]

AiAwaits == {"ais_cuisines", "ais_tags", "ais_ingredients", "ais_translate",
             "ais_find", "ais_localize",
             "aic_cuisines", "aic_tags", "aic_extract", "aic_cuisine",
             "aic_tagdocs", "aic_insert"}

\* a rejected await in a handler without try/catch: the framework's default
\* error handler answers 500 where it catches rejected handlers (Express 5);
\* otherwise the rejection is unhandled and nothing is sent (Express 4)
Unhandled(p) ==
    \/ /\ pc' = [pc EXCEPT ![p] = "crashed"]
       /\ UNCHANGED resp
    \/ Respond(p, 500, "Internal")

\* a translator failure swallowed: the handler goes on with empty search
\* parameters instead of stopping
AiFault_FallsBack(p) ==
    /\ pc[p] \in AiAwaits
    /\ failedAt' = [failedAt EXCEPT ![p] = pc[p]]
    /\ IF pc[p] = "ais_translate"
       THEN /\ aiOut' = [aiOut EXCEPT ![p] = SearchParams(Undef, Undef, Undef)]
            /\ Call(p, "recipes.find")
            /\ Await(p, "ais_find")
       ELSE /\ Unhandled(p)
            /\ UNCHANGED <<aiOut, calls>>
    /\ UNCHANGED <<storeVars, searchVars, localVars, nextId, adminOps, histVars,
                   recipeText, vocab, aiFound, promptVocab, promptText>>

\* the awaited storage or AI call of an AI route rejects, or the AI text does
\* not parse (JSON.parse throws)
AiFault(p) ==
    /\ pc[p] \in AiAwaits
    /\ failedAt' = [failedAt EXCEPT ![p] = pc[p]]
    /\ Unhandled(p)
    /\ UNCHANGED <<storeVars, searchVars, localVars, nextId, adminOps, histVars,
                   recipeText, vocab, aiOut, aiFound, promptVocab, promptText, calls>>

-----------------------------------------------------------------------------
(* GET /ai/recipes *)

AiSearchStart(p) ==
    /\ Receive(p, "aisearch", NoId, NoBody)
    /\ Call(p, "cuisines.distinct")
    /\ Await(p, "ais_cuisines")
    /\ UNCHANGED <<storeVars, searchVars, cuisineDoc, tagDocs, pending, fetched,
                   nextId, adminOps, histVars,
                   recipeText, vocab, aiOut, aiFound, promptVocab, promptText, failedAt>>

AisCuisines(p) ==
    /\ pc[p] = "ais_cuisines"
    /\ vocab' = [vocab EXCEPT ![p].cuisines = DistinctCuisines]
    /\ Call(p, "tags.distinct")
    /\ Await(p, "ais_tags")
    /\ UNCHANGED <<storeVars, searchVars, localVars, nextId, adminOps, histVars,
                   recipeText, aiOut, aiFound, promptVocab, promptText, failedAt>>

AisTags(p) ==
    /\ pc[p] = "ais_tags"
    /\ vocab' = [vocab EXCEPT ![p].tags = DistinctTags]
    /\ Call(p, "recipes.distinct")
    /\ Await(p, "ais_ingredients")
    /\ UNCHANGED <<storeVars, searchVars, localVars, nextId, adminOps, histVars,
                   recipeText, aiOut, aiFound, promptVocab, promptText, failedAt>>

AisIngredients(p) ==
    /\ pc[p] = "ais_ingredients"
    /\ vocab' = [vocab EXCEPT ![p].ingredients = DistinctIngredients]
    /\ promptVocab' = [promptVocab EXCEPT ![p] = <<vocab'[p]>>]
    /\ Call(p, "generateSearchParams")
    /\ Await(p, "ais_translate")
    /\ UNCHANGED <<storeVars, searchVars, localVars, nextId, adminOps, histVars,
                   recipeText, aiOut, aiFound, promptText, failedAt>>

AisTranslate(p) ==
    \E sp \in SearchParamsAnswers :
        /\ pc[p] = "ais_translate"
        /\ aiOut' = [aiOut EXCEPT ![p] = sp]
        /\ Call(p, "recipes.find")
        /\ Await(p, "ais_find")
        /\ UNCHANGED <<storeVars, searchVars, localVars, nextId, adminOps, histVars,
                       recipeText, vocab, aiFound, promptVocab, promptText, failedAt>>

AisFind(p) ==
    LET docs == Find(recipes, AiCriteria(aiOut[p]))
    IN /\ pc[p] = "ais_find"
       /\ aiFound' = [aiFound EXCEPT ![p] = docs]
       /\ recipeText' = Stringify(docs)
       /\ promptText' = [promptText EXCEPT ![p] = <<RecipeTextRead(Stringify(docs))>>]
       /\ Call(p, "translateRecipe")
       /\ Await(p, "ais_localize")
       /\ UNCHANGED <<storeVars, searchVars, localVars, nextId, adminOps, histVars,
                      vocab, aiOut, promptVocab, failedAt>>

AisLocalize(p) ==
    /\ pc[p] = "ais_localize"
    /\ Respond(p, 200, "none")
    /\ UNCHANGED <<storeVars, searchVars, localVars, nextId, adminOps, histVars, aiVars>>

-----------------------------------------------------------------------------
(* POST /ai/recipes *)

AiCreateStart(p) ==
    /\ Receive(p, "aicreate", NoId, NoBody)
    /\ Call(p, "cuisines.distinct")
    /\ Await(p, "aic_cuisines")
    /\ UNCHANGED <<storeVars, searchVars, cuisineDoc, tagDocs, pending, fetched,
                   nextId, adminOps, histVars,
                   recipeText, vocab, aiOut, aiFound, promptVocab, promptText, failedAt>>

AicCuisines(p) ==
    /\ pc[p] = "aic_cuisines"
    /\ vocab' = [vocab EXCEPT ![p].cuisines = DistinctCuisines]
    /\ Call(p, "tags.distinct")
    /\ Await(p, "aic_tags")
    /\ UNCHANGED <<storeVars, searchVars, localVars, nextId, adminOps, histVars,
                   recipeText, aiOut, aiFound, promptVocab, promptText, failedAt>>

AicTags(p) ==
    /\ pc[p] = "aic_tags"
    /\ vocab' = [vocab EXCEPT ![p].tags = DistinctTags]
    /\ promptVocab' = [promptVocab EXCEPT ![p] = <<vocab'[p]>>]
    /\ Call(p, "generateRecipe")
    /\ Await(p, "aic_extract")
    /\ UNCHANGED <<storeVars, searchVars, localVars, nextId, adminOps, histVars,
                   recipeText, aiOut, aiFound, promptText, failedAt>>

AicExtract(p) ==
    \E d \in Drafts :
        /\ pc[p] = "aic_extract"
        /\ aiOut' = [aiOut EXCEPT ![p] = d]
        /\ Call(p, "cuisines.findOne")
        /\ Await(p, "aic_cuisine")
        /\ UNCHANGED <<storeVars, searchVars, localVars, nextId, adminOps, histVars,
                       recipeText, vocab, aiFound, promptVocab, promptText, failedAt>>

AicCuisine(p) ==
    /\ pc[p] = "aic_cuisine"
    /\ cuisineDoc' = [cuisineDoc EXCEPT ![p] = FindCuisine(aiOut[p].cuisine.v)]
    /\ seenCuisines' = [seenCuisines EXCEPT ![p] = <<Range(cuisines)>>]
    /\ IF FindCuisine(aiOut[p].cuisine.v) = <<>>
       THEN /\ Respond(p, 404, "InvalidCuisine")
            /\ UNCHANGED calls
       ELSE /\ Call(p, "tags.find")
            /\ Await(p, "aic_tagdocs")
    /\ UNCHANGED <<storeVars, searchVars, req, tagDocs, pending, fetched,
                   nextId, adminOps, seenTags, wrote,
                   recipeText, vocab, aiOut, aiFound, promptVocab, promptText, failedAt>>

\* find({name: {$in: newRecipe.tags}}) resolves only for an array operand
AicTagDocs(p) ==
    LET docs == FindTags(aiOut[p].tags.v)
    IN /\ pc[p] = "aic_tagdocs"
       /\ aiOut[p].tags.kind = "arr"
       /\ tagDocs' = [tagDocs EXCEPT ![p] = docs]
       /\ seenTags' = [seenTags EXCEPT ![p] = <<Range(tags)>>]
       /\ pending' = [pending EXCEPT ![p] =
              [_id |-> nextId, doc |-> AiNewRecipe(aiOut[p], cuisineDoc[p][1], docs)]]
       /\ nextId' = nextId + 1
       /\ Call(p, "recipes.insertOne")
       /\ Await(p, "aic_insert")
       /\ UNCHANGED <<storeVars, searchVars, req, cuisineDoc, fetched,
                      adminOps, seenCuisines, wrote,
                      recipeText, vocab, aiOut, aiFound, promptVocab, promptText, failedAt>>

AicInsert(p) ==
    /\ pc[p] = "aic_insert"
    /\ recipes' = InsertRecipe(pending[p]._id, pending[p].doc)
    /\ wrote' = [wrote EXCEPT ![p] = @ + 1]
    /\ Respond(p, 200, "none")
    /\ UNCHANGED <<cuisines, tags, searchVars, localVars, nextId, adminOps,
                   seenCuisines, seenTags, aiVars>>

NextAi ==
    \E p \in Procs :
        \/ AiSearchStart(p) \/ AisCuisines(p) \/ AisTags(p) \/ AisIngredients(p)
        \/ AisTranslate(p) \/ AisFind(p) \/ AisLocalize(p)
        \/ AiCreateStart(p) \/ AicCuisines(p) \/ AicTags(p) \/ AicExtract(p)
        \/ AicCuisine(p) \/ AicTagDocs(p) \/ AicInsert(p)
        \/ AiFault(p)

SpecAi == Init /\ [][NextAi]_vars

-----------------------------------------------------------------------------
(* Properties of the AI routes *)

Count(seq, x) == Cardinality({i \in DOMAIN seq : seq[i] = x})

Ended(p) == pc[p] \in {"done", "crashed"}

\* C11: a failed AI call ends its request. After a failed translation the
\* request has called the translator once and never looks up recipes or calls
\* the localizer; after a failed extraction nothing is inserted; after a
\* failed localizer call no success response (and so no recipe list) is sent.
C11_FailedAiCallAborts ==
    \A p \in Procs :
        /\ failedAt[p] # "none" => Ended(p) /\ resp[p].status # 200
        /\ failedAt[p] = "ais_translate" =>
              /\ Count(calls[p], "generateSearchParams") = 1
              /\ Count(calls[p], "recipes.find") = 0
              /\ Count(calls[p], "translateRecipe") = 0
              /\ aiFound[p] = {}
        /\ failedAt[p] = "aic_extract" =>
              /\ Count(calls[p], "generateRecipe") = 1
              /\ Count(calls[p], "recipes.insertOne") = 0
              /\ wrote[p] = 0
        /\ failedAt[p] = "ais_localize" =>
              Count(calls[p], "translateRecipe") = 1

C11_Witness ==
    /\ failedAt[1] = "ais_translate" /\ Ended(1)
    /\ failedAt[2] = "aic_extract" /\ Ended(2)
    /\ DOMAIN recipes = {1}

\* C12 as stated: every request in which a collaborator call failed has been
\* answered with status 500.
C12_FaultAnsweredWith500 ==
    \A p \in Procs : failedAt[p] # "none" => resp[p].status = 500

\* what validateRecipe accepts: all fields present, the cuisine known, every
\* tag name resolved
PassesValidation(d) ==
    /\ PresenceOk(d)
    /\ FindCuisine(d.cuisine.v) # <<>>
    /\ TagCountOk(FindTags(d.tags.v), d.tags.v)

Extracted(p) == req[p].op = "aicreate" /\ Count(calls[p], "cuisines.findOne") = 1

\* C13 as stated: a draft that validateRecipe would reject is answered as a
\* rejection (a 4xx status) and never inserted; a draft is inserted only if it
\* passes validateRecipe, and then in the normalized shape.
C13_DraftValidatedBeforeInsert ==
    \A p \in Procs :
        /\ (Extracted(p) /\ wrote[p] > 0) =>
              /\ PassesValidation(aiOut[p])
              /\ pending[p].doc =
                    NewRecipe(aiOut[p], FindCuisine(aiOut[p].cuisine.v)[1],
                              FindTags(aiOut[p].tags.v))
        /\ (Extracted(p) /\ pc[p] = "done" /\ failedAt[p] = "none"
              /\ ~PassesValidation(aiOut[p])) => resp[p].status \in {400, 404}

-----------------------------------------------------------------------------
(* Natural-language search against structured search *)

RECURSIVE Join(_)
\* names.join(","): the query-string form of a list of names
Join(names) ==
    IF names = <<>> THEN <<>>
    ELSE IF Len(names) = 1 THEN names[1]
    ELSE names[1] \o <<",">> \o Join(Tail(names))

AsQueryParam(x) == IF x.kind = "undef" THEN Undef ELSE Str(Join(x.v))

\* the GET /recipes/search request for the same tag and ingredient names
StructuredQuery(sp) ==
    [op |-> "search", name |-> Undef, tags |-> AsQueryParam(sp.tags),
     ingredients |-> AsQueryParam(sp.ingredients), cuisines |-> Undef]

StructuredIds(sp) ==
    {d._id : d \in Find(recipes, SearchCriteria(StructuredQuery(sp)))}

\* C14 as stated: when the translator's answer constrains tags and
\* ingredients only, natural-language search returns exactly the recipes
\* structured search returns for the same names (tags by OR, every ingredient
\* a case-insensitive substring of some ingredient name).
C14_SameSelectionAsStructured ==
    (sreq.op = "ai" /\ ~Supplied(sreq.cuisines)) =>
        /\ ReturnedIds = StructuredIds(sreq)
        /\ \A id \in DOMAIN recipes :
              id \in ReturnedIds <=>
                 /\ Supplied(sreq.tags) => TagNames(id) \cap Range(sreq.tags.v) # {}
                 /\ Supplied(sreq.ingredients) =>
                       HasAllIngredients(id, sreq.ingredients.v)

-----------------------------------------------------------------------------
(* Reviews *)

\* process p's add-review request succeeds in this step
ReviewAdded(p) ==
    pc[p] = "review_write" /\ pc'[p] = "done" /\ resp'[p].status = 201

ReviewsStep ==
    /\ \A id \in DOMAIN recipes \cap DOMAIN recipes' :
          LET old == recipes[id].reviews
              new == recipes'[id].reviews
          IN /\ recipes'[id]._id = id
             /\ \/ new = old
                \/ \E p \in Procs :
                      /\ ReviewAdded(p)
                      /\ pending[p]._id = id
                      /\ new = Append(old, pending[p].doc)
    /\ \A p \in Procs :
          ReviewAdded(p) =>
             /\ pending[p]._id \in DOMAIN recipes'
             /\ recipes'[pending[p]._id].reviews =
                   Append(recipes[pending[p]._id].reviews, pending[p].doc)
    /\ \A p \in Procs :
          (req'[p].op = "review" /\ resp'[p].status = 201
              /\ pending'[p]._id \in DOMAIN recipes')
          => \E i \in DOMAIN recipes'[pending'[p]._id].reviews :
                recipes'[pending'[p]._id].reviews[i] = pending'[p].doc

\* C15: in every step, the reviews of a recipe that stays in the store are
\* either unchanged or extended at the end by the one review of an add-review
\* request that succeeds in that step (so an update changes neither the
\* reviews nor the recipe id), every successful add-review appends exactly its
\* review, and the review of every successful add-review is in the sequence
\* for as long as the recipe exists.
C15_ReviewsAppendOnly == [][ReviewsStep]_vars

C15_Witness ==
    /\ 1 \in DOMAIN recipes
    /\ Len(recipes[1].reviews) = 2
    /\ recipes[1].reviews[1] # recipes[1].reviews[2]
    /\ \A p \in Procs : req[p].op = "review" /\ resp[p].status = 201

-----------------------------------------------------------------------------
(* Requests in flight share the store and translateRecipe's recipeText *)

\* everything one request holds between its awaits, and its response
RequestState(p) ==
    <<pc[p], req[p], resp[p], cuisineDoc[p], tagDocs[p], pending[p], wrote[p],
      vocab[p], aiOut[p], aiFound[p], promptVocab[p], promptText[p], calls[p],
      failedAt[p]>>

\* the prompt sent to the localizer holds the recipes this request found, and
\* the vocabulary sent to the translator or extractor is the one this request
\* fetched
PromptsOwn ==
    \A p \in Procs :
        /\ promptText[p] # <<>> => promptText[p][1] = Stringify(aiFound[p])
        /\ promptVocab[p] # <<>> => promptVocab[p][1] = vocab[p]

\* a step of one request (a resumed await, a fault, a response) leaves the
\* state and the response of every other request as they were
OthersUntouched ==
    \A p \in Procs, q \in Procs :
        (p # q /\ RequestState(p)' # RequestState(p)) =>
            RequestState(q)' = RequestState(q)

====
